---- MODULE Spec2Model ----
(***************************************************************************)
(* A model of the four qcML report modules of ngs-bits for MultiQC         *)
(* (readqc, mappingqc, somaticqc, variantqc) and of the parser they share, *)
(* QcmlMultiqcModule.parse_qcml.                                           *)
(*                                                                         *)
(* Strings are TLA+ strings, read character by character with SubSeq.      *)
(* A Python dict is a function whose DOMAIN is its key set.                *)
(***************************************************************************)
EXTENDS Integers, Sequences, FiniteSets, TLC

VARIABLES
    module,               \* which MultiqcModule.__init__ runs
    logfiles,             \* what find_log_files yields: <<[s_name, f], ...>>
    sample_names_ignore,  \* the samples config tells ignore_samples to drop
    pc,                   \* position in __init__
    exc,                  \* the exception __init__ ended with, "" for none
    qcml,                 \* self.qcml: name -> [description, accession]
    qcdata,               \* self.qcdata: sample -> (name -> value)
    headers,              \* the table headers of __init__
    calls,                \* the host framework's calls made so far
    docs,                 \* parse_qcml: the elements read, one sequence per call
    quality_parameters,   \* parse_qcml: the mapping of the call in progress
    d, ks, od             \* dict_ordered_subset: arguments and result

vars == <<module, logfiles, sample_names_ignore, pc, exc, qcml, qcdata,
          headers, calls, docs, quality_parameters, d, ks, od>>

----------------------------------------------------------------------------
(* Bounds of the model.                                                    *)

\* elements one module instance parses in the parser's specification
MaxElems == 3
\* parse_qcml calls of one module instance in the parser's specification
MaxDocs == 2
\* pieces a generated parameter name is made of
MaxPieces == 3
\* characters of a generated value attribute
MaxChars == 3
\* log files find_log_files yields for one module
MaxFiles == 2
\* length of the key tuple given to dict_ordered_subset
MaxKs == 3

----------------------------------------------------------------------------
(* Strings and dicts.                                                      *)

Ch(s, i) == SubSeq(s, i, i)

StartsWith(s, p) == Len(s) >= Len(p) /\ SubSeq(s, 1, Len(p)) = p

EndsWith(s, p) == Len(s) >= Len(p) /\ SubSeq(s, Len(s) - Len(p) + 1, Len(s)) = p

\* s[i:i+len(p)] == p
MatchAt(s, i, p) == i + Len(p) - 1 <= Len(s) /\ SubSeq(s, i, i + Len(p) - 1) = p

EmptyDict == << >>

\* dict[k] = v
Put(dict, k, v) == [x \in (DOMAIN dict) \cup {k} |-> IF x = k THEN v ELSE dict[x]]

\* dict.pop(k), for a key that is there
Pop(dict, k) == [x \in (DOMAIN dict) \ {k} |-> dict[x]]

----------------------------------------------------------------------------
(* Python's float(str).                                                    *)

\* A stored value: a float m * 10^e (or inf, -inf, nan in s), or a string s.
Num(m, e) == [t |-> "float", s |-> "", m |-> m, e |-> e]
Special(w) == [t |-> "float", s |-> w, m |-> 0, e |-> 0]
Str(s) == [t |-> "str", s |-> s, m |-> 0, e |-> 0]

Digits == {"0", "1", "2", "3", "4", "5", "6", "7", "8", "9"}
Whitespace == {" ", "\t", "\n", "\r", "\f"}

DigitVal(c) ==
    CASE c = "0" -> 0 [] c = "1" -> 1 [] c = "2" -> 2 [] c = "3" -> 3
      [] c = "4" -> 4 [] c = "5" -> 5 [] c = "6" -> 6 [] c = "7" -> 7
      [] c = "8" -> 8 [] c = "9" -> 9

RECURSIVE LStrip(_)
LStrip(s) == IF s # "" /\ Head(s) \in Whitespace THEN LStrip(Tail(s)) ELSE s

RECURSIVE RStrip(_)
RStrip(s) ==
    IF s # "" /\ Ch(s, Len(s)) \in Whitespace
    THEN RStrip(SubSeq(s, 1, Len(s) - 1)) ELSE s

\* the number of digits of s from position i on
RECURSIVE DigitRun(_, _)
DigitRun(s, i) ==
    IF i <= Len(s) /\ Ch(s, i) \in Digits THEN 1 + DigitRun(s, i + 1) ELSE 0

\* the integer a string of digits writes
RECURSIVE IntOf(_)
IntOf(s) ==
    IF s = "" THEN 0
    ELSE 10 * IntOf(SubSeq(s, 1, Len(s) - 1)) + DigitVal(Ch(s, Len(s)))

RECURSIVE Normal(_, _)
Normal(m, e) ==
    IF m = 0 THEN Num(0, 0)
    ELSE IF m % 10 = 0 THEN Normal(m \div 10, e + 1)
    ELSE Num(m, e)

LowerCh(c) ==
    CASE c = "I" -> "i" [] c = "N" -> "n" [] c = "F" -> "f" [] c = "T" -> "t"
      [] c = "Y" -> "y" [] c = "A" -> "a" [] OTHER -> c

RECURSIVE Lower(_)
Lower(s) == IF s = "" THEN "" ELSE LowerCh(Head(s)) \o Lower(Tail(s))

\* float(s): [ok |-> FALSE] stands for ValueError. Digit-group underscores
\* (Python 3.6 on) are left out; no input of the model holds one.
Float(s) ==
    LET t == RStrip(LStrip(s))
        signed == t # "" /\ Head(t) \in {"+", "-"}
        neg == t # "" /\ Head(t) = "-"
        b == IF signed THEN Tail(t) ELSE t
        n1 == DigitRun(b, 1)
        dot == MatchAt(b, n1 + 1, ".")
        n2 == IF dot THEN DigitRun(b, n1 + 2) ELSE 0
        mend == n1 + (IF dot THEN 1 + n2 ELSE 0)
        int == SubSeq(b, 1, n1)
        frac == IF dot THEN SubSeq(b, n1 + 2, n1 + 1 + n2) ELSE ""
        rest == SubSeq(b, mend + 1, Len(b))
        esigned == Len(rest) >= 2 /\ Ch(rest, 2) \in {"+", "-"}
        eneg == Len(rest) >= 2 /\ Ch(rest, 2) = "-"
        edigits == SubSeq(rest, IF esigned THEN 3 ELSE 2, Len(rest))
        expOk == /\ rest # ""
                 /\ Head(rest) \in {"e", "E"}
                 /\ edigits # ""
                 /\ DigitRun(edigits, 1) = Len(edigits)
        ex == IF rest = "" THEN 0
              ELSE IF eneg THEN 0 - IntOf(edigits) ELSE IntOf(edigits)
        mant == IntOf(int \o frac)
    IN  IF Lower(b) \in {"inf", "infinity"}
        THEN [ok |-> TRUE, v |-> Special(IF neg THEN "-inf" ELSE "inf")]
        ELSE IF Lower(b) = "nan"
        THEN [ok |-> TRUE, v |-> Special("nan")]
        ELSE IF n1 + n2 >= 1 /\ (rest = "" \/ expOk)
        THEN [ok |-> TRUE,
              v |-> Normal(IF neg THEN 0 - mant ELSE mant, ex - n2)]
        ELSE [ok |-> FALSE, v |-> Str(s)]

----------------------------------------------------------------------------
(* QcmlMultiqcModule.parse_qcml.                                           *)

\* one qualityParameter element: its four attributes
QP(name, value, description, accession) ==
    [name |-> name, value |-> value, description |-> description,
     accession |-> accession]

\* a mutant of IsSkipped: only the value "n/a" itself is skipped
IsSkippedExact(qp) == qp.value = "n/a"

\* qp.attrib['value'].startswith('n/a')
IsSkipped(qp) == StartsWith(qp.value, "n/a")

\* '$' of Python's re: at the end of the string, or before a newline that
\* ends it. p is the position after the match.
DollarAt(s, p) == p = Len(s) + 1 \/ (p = Len(s) /\ Ch(s, p) = "\n")

\* the first position from i on where r' percentage$' matches s, 0 for none
RECURSIVE PercentageMatch(_, _)
PercentageMatch(s, i) ==
    IF i > Len(s) THEN 0
    ELSE IF DollarAt(s, i + Len(" percentage")) /\ MatchAt(s, i, " percentage") THEN i
    ELSE PercentageMatch(s, i + 1)

\* re.sub(r' percentage$', ' %', s), on s from position i: every match,
\* leftmost first, is replaced
RECURSIVE SubPercentageFrom(_, _)
SubPercentageFrom(s, i) ==
    LET p == PercentageMatch(s, i)
    IN  IF p = 0 THEN SubSeq(s, i, Len(s))
        ELSE SubSeq(s, i, p - 1) \o " %"
             \o SubPercentageFrom(s, p + Len(" percentage"))

qp_name(qp) == SubPercentageFrom(qp.name, 1)

\* a mutant of qp_value: the value is kept as text, never converted
qp_valueText(qp) == Str(qp.value)

\* try: float(value) except ValueError: value
qp_value(qp) == LET f == Float(qp.value) IN IF f.ok THEN f.v ELSE Str(qp.value)

qp_entry(qp) == [description |-> qp.description, accession |-> qp.accession]

\* a mutant of ParseElement: the description of a skipped element is recorded
ParseElementRecordsSkipped(st, qp) ==
    [quality_parameters |->
         IF IsSkipped(qp) THEN st.quality_parameters
         ELSE Put(st.quality_parameters, qp_name(qp), qp_value(qp)),
     qcml |-> Put(st.qcml, qp_name(qp), qp_entry(qp))]

\* a mutant of ParseElement: an entry of the description table is kept once
\* it is there
ParseElementKeepsFirst(st, qp) ==
    IF IsSkipped(qp) THEN st
    ELSE [quality_parameters |-> Put(st.quality_parameters, qp_name(qp), qp_value(qp)),
          qcml |-> IF qp_name(qp) \in DOMAIN st.qcml THEN st.qcml
                   ELSE Put(st.qcml, qp_name(qp), qp_entry(qp))]

\* a mutant of ParseElement: the description table is keyed by the name as
\* the attribute gives it
ParseElementRawName(st, qp) ==
    IF IsSkipped(qp) THEN st
    ELSE [quality_parameters |-> Put(st.quality_parameters, qp_name(qp), qp_value(qp)),
          qcml |-> Put(st.qcml, qp.name, qp_entry(qp))]

\* The body of the loop over the qualityParameter elements, on the state
\* st = [quality_parameters, qcml].
ParseElement(st, qp) ==
    IF IsSkipped(qp) THEN st
    ELSE LET k == qp_name(qp)
         IN  [quality_parameters |-> Put(st.quality_parameters, k, qp_value(qp)),
              qcml |-> Put(st.qcml, k, qp_entry(qp))]

\* The loop of parse_qcml over the elements of one document, from element i.
RECURSIVE ParseFrom(_, _, _)
ParseFrom(st, doc, i) ==
    IF i > Len(doc) THEN st ELSE ParseFrom(ParseElement(st, doc[i]), doc, i + 1)

\* parse_qcml(self, qcml_contents): [quality_parameters, qcml]
parse_qcml(table, doc) ==
    ParseFrom([quality_parameters |-> EmptyDict, qcml |-> table], doc, 1)

----------------------------------------------------------------------------
(* The parser on its own: one module instance calling parse_qcml on one    *)
(* document after the other, an element at a time.                         *)

\* all concatenations of at most n members of P
RECURSIVE Concats(_, _)
Concats(P, n) ==
    IF n = 0 THEN {""}
    ELSE LET S == Concats(P, n - 1) IN S \cup {s \o p : s \in S, p \in P}

\* the elements the documents of the parser's specification are made of
ParseNames == {"gc percentage", "gc %", "insert size"}
\* a value with the description and accession it comes with
ParseValues ==
    {<<"210", "d1", "QC:1">>, <<"210", "d2", "QC:2">>,
     <<"n/a (no target region)", "d2", "QC:2">>}
ParseQPs == {QP(n, v[1], v[2], v[3]) : n \in ParseNames, v \in ParseValues}

\* the elements of the single-element specification: generated names with
\* one value, generated values with one name, and the spec's examples
NamePieces == {"gc", " percentage", "\n", " %"}
ValueChars == {"1", ".", "n", "/", "a", " ", "-", "e"}
ElementQPs ==
    {QP(n, "97.3", "d1", "QC:1") : n \in Concats(NamePieces, MaxPieces)}
    \cup {QP("insert size", v, "d1", "QC:1") : v \in Concats(ValueChars, MaxChars)}
    \cup {QP("mapped read percentage", "97.3", "d1", "QC:1"),
          QP("target region read depth", "n/a (no target region)", "d1", "QC:1"),
          QP("insert size", "210", "d1", "QC:1"),
          QP("insert size", "NA_TEXT", "d1", "QC:1")}

\* the sample the i-th document belongs to
SampleOf(i) == "S" \o ToString(i)

RECURSIVE Flatten(_)
Flatten(ss) == IF ss = << >> THEN << >> ELSE Head(ss) \o Flatten(Tail(ss))

\* every element read so far, in processing order
AllRead == Flatten(docs)

\* the elements read so far by the call in progress
CurrentDoc == docs[Len(docs)]

\* no module is running
NoModule ==
    /\ module = ""
    /\ logfiles = << >>
    /\ sample_names_ignore = {}

\* no call of dict_ordered_subset is under way
NoSubset ==
    /\ d = EmptyDict
    /\ ks = << >>
    /\ od = << >>

\* a module instance as its __init__ starts
Fresh ==
    /\ exc = ""
    /\ qcml = EmptyDict
    /\ qcdata = EmptyDict
    /\ headers = EmptyDict
    /\ calls = << >>
    /\ docs = << >>
    /\ quality_parameters = EmptyDict

InitParse == NoModule /\ NoSubset /\ Fresh /\ pc = "find"

\* the caller's loop reaches a file and calls parse_qcml: a fresh mapping
BeginParse ==
    /\ pc = "find"
    /\ Len(docs) < MaxDocs
    /\ pc' = "parse_qcml"
    /\ docs' = Append(docs, << >>)
    /\ quality_parameters' = EmptyDict
    /\ UNCHANGED <<module, logfiles, sample_names_ignore, exc, qcml, qcdata,
                   headers, calls, d, ks, od>>

\* one turn of the loop over the qualityParameter elements, on an element of U
ParseQP(U, n) ==
    /\ pc = "parse_qcml"
    /\ Len(AllRead) < n
    /\ \E qp \in U :
          LET st == ParseElement([quality_parameters |-> quality_parameters,
                                  qcml |-> qcml], qp)
          IN  /\ quality_parameters' = st.quality_parameters
              /\ qcml' = st.qcml
              /\ docs' = [docs EXCEPT ![Len(docs)] = Append(@, qp)]
    /\ UNCHANGED <<module, logfiles, sample_names_ignore, pc, exc, qcdata,
                   headers, calls, d, ks, od>>

\* parse_qcml returns and the caller stores the mapping under the sample
ReturnQcml ==
    /\ pc = "parse_qcml"
    /\ pc' = "find"
    /\ qcdata' = Put(qcdata, SampleOf(Len(docs)), quality_parameters)
    /\ UNCHANGED <<module, logfiles, sample_names_ignore, exc, qcml, headers,
                   calls, docs, quality_parameters, d, ks, od>>

NextParse == BeginParse \/ ParseQP(ParseQPs, MaxElems) \/ ReturnQcml

SpecParse == InitParse /\ [][NextParse]_vars

NextElement == BeginParse \/ ParseQP(ElementQPs, 1) \/ ReturnQcml

SpecElement == InitParse /\ [][NextElement]_vars

\* The parser on elements that may lack the description or the accession
\* attribute: qp.attrib[...] of an attribute that is not there is a KeyError.
EntryQPs ==
    {QP("gc percentage", "210", "d1", "QC:1"),
     QP("gc %", "97.3", "d2", "QC:2"),
     QP("insert size", "n/a (no target region)", "d1", "QC:1"),
     QP("insert size", "NA_TEXT", "d2", "QC:2")}

\* the elements of EntryQPs without one of the two attributes
LackingQPs ==
    {[name |-> qp.name, value |-> qp.value, description |-> qp.description] :
         qp \in EntryQPs}
    \cup {[name |-> qp.name, value |-> qp.value, accession |-> qp.accession] :
              qp \in EntryQPs}

\* one turn of the loop on an element of U that is not skipped and lacks an
\* attribute: the value is stored in the local mapping, then building the
\* entry raises KeyError, which nothing between here and the caller of
\* __init__ catches; the mapping is never returned
ParseQPRaises(U, n) ==
    /\ pc = "parse_qcml"
    /\ Len(AllRead) < n
    /\ \E qp \in U :
          /\ ~IsSkipped(qp)
          /\ quality_parameters' = Put(quality_parameters, qp_name(qp), qp_value(qp))
          /\ docs' = [docs EXCEPT ![Len(docs)] = Append(@, qp)]
    /\ pc' = "raised"
    /\ exc' = "KeyError"
    /\ UNCHANGED <<module, logfiles, sample_names_ignore, qcml, qcdata, headers,
                   calls, d, ks, od>>

NextEntries ==
    \/ BeginParse
    \/ ParseQP(EntryQPs, MaxElems)
    \/ ParseQPRaises(LackingQPs, MaxElems)
    \/ ReturnQcml

SpecEntries == InitParse /\ [][NextEntries]_vars

----------------------------------------------------------------------------
(* QcmlMultiqcModule.dict_ordered_subset and make_description.             *)

\* An OrderedDict is a sequence of <<key, value>> pairs with distinct keys.
OdKeys(o) == [i \in 1..Len(o) |-> o[i][1]]

\* a mutant of OdPut: the pair is put in front
OdPutFront(o, k, v) == <<<<k, v>>>> \o o

\* od[k] = v: a key already there keeps its place
OdPut(o, k, v) ==
    IF \E i \in 1..Len(o) : o[i][1] = k
    THEN [i \in 1..Len(o) |-> IF o[i][1] = k THEN <<k, v>> ELSE o[i]]
    ELSE Append(o, <<k, v>>)

\* the loop of dict_ordered_subset over ks from position i, od built so far
RECURSIVE SubsetFrom(_, _, _, _)
SubsetFrom(dict, keys, i, o) ==
    IF i > Len(keys) THEN o
    ELSE IF keys[i] \in DOMAIN dict
    THEN SubsetFrom(dict, keys, i + 1, OdPut(o, keys[i], dict[keys[i]]))
    ELSE SubsetFrom(dict, keys, i + 1, o)

\* dict_ordered_subset(d, ks): the OrderedDict returned, and d after the call
dict_ordered_subset(dict, keys) ==
    [od |-> SubsetFrom(dict, keys, 1, << >>), d |-> dict]

\* "{:s}".format(description, accession) of one key: both are looked up
DescribedKey(table, k) ==
    /\ k \in DOMAIN table
    /\ "description" \in DOMAIN table[k]
    /\ "accession" \in DOMAIN table[k]

RECURSIVE ListItems(_, _)
ListItems(table, keynames) ==
    IF keynames = << >> THEN ""
    ELSE "<li>" \o table[Head(keynames)].description \o "</li>"
         \o ListItems(table, Tail(keynames))

\* make_description(self, keynames): [ok |-> FALSE] stands for KeyError
make_description(table, keynames) ==
    IF \E i \in 1..Len(keynames) : ~DescribedKey(table, keynames[i])
    THEN [ok |-> FALSE, desc |-> ""]
    ELSE IF Len(keynames) = 1
    THEN [ok |-> TRUE, desc |-> table[keynames[1]].description]
    ELSE [ok |-> TRUE, desc |-> "<ul>" \o ListItems(table, keynames) \o "</ul>"]

----------------------------------------------------------------------------
(* The statements of MultiqcModule.__init__ after the samples are checked, *)
(* on m = [exc, qcml, qcdata, headers, calls]. A statement is not run once *)
(* m.exc names an exception.                                               *)

Raise(m, e) == [m EXCEPT !.exc = e]

\* a mutant of Times1e6: x * 1e3
Times1e3(v) == IF v.s # "" THEN v ELSE Normal(v.m, v.e + 3)

\* x * 1e6
Times1e6(v) == IF v.s # "" THEN v ELSE Normal(v.m, v.e + 6)

\* self.qcml.pop(old); self.qcml[new] = dict(); self.qcml[new]['description'] = ...
RenameEntry(m, old, new, description) ==
    IF m.exc # "" THEN m
    ELSE IF old \notin DOMAIN m.qcml THEN Raise(m, "KeyError")
    ELSE [m EXCEPT !.qcml = Put(Pop(m.qcml, old), new, [description |-> description])]

\* for s, kv in self.qcdata.items(): kv[new] = kv[old] * 1e6; kv.pop(old)
RECURSIVE ConvertBases(_, _, _, _)
ConvertBases(m, order, old, new) ==
    IF m.exc # "" \/ order = << >> THEN m
    ELSE LET kv == m.qcdata[Head(order)]
         IN  IF old \notin DOMAIN kv THEN Raise(m, "KeyError")
             ELSE IF kv[old].t = "str" THEN Raise(m, "TypeError")
             ELSE ConvertBases(
                      [m EXCEPT !.qcdata[Head(order)] =
                                    Pop(Put(kv, new, Times1e6(kv[old])), old)],
                      Tail(order), old, new)

\* headers = {qp_key: {...} for qp_key, qp_entry in self.qcml.items()}
MakeHeaders(m) ==
    IF m.exc # "" THEN m
    ELSE [m EXCEPT !.headers =
              [k \in DOMAIN m.qcml |->
                  [title |-> k, description |-> m.qcml[k].description,
                   suffix |-> "", format |-> ""]]]

\* an update of one header: u = <<key, suffix, format>>
Updated(hs, u) == [hs EXCEPT ![u[1]].suffix = u[2], ![u[1]].format = u[3]]

\* headers[k].update({...}) for each u of ups in turn, outside any try
RECURSIVE UpdateAll(_, _)
UpdateAll(m, ups) ==
    IF m.exc # "" \/ ups = << >> THEN m
    ELSE IF Head(ups)[1] \notin DOMAIN m.headers THEN Raise(m, "KeyError")
    ELSE UpdateAll([m EXCEPT !.headers = Updated(m.headers, Head(ups))], Tail(ups))

\* try: headers[k].update({...}) for each u of ups; except KeyError: pass
RECURSIVE TryUpdates(_, _)
TryUpdates(m, ups) ==
    IF m.exc # "" \/ ups = << >> THEN m
    ELSE IF Head(ups)[1] \notin DOMAIN m.headers THEN m
    ELSE TryUpdates([m EXCEPT !.headers = Updated(m.headers, Head(ups))], Tail(ups))

Call(m, fn, name, keys) ==
    IF m.exc # "" THEN m
    ELSE [m EXCEPT !.calls = Append(m.calls, [fn |-> fn, name |-> name, keys |-> keys])]

\* self.general_stats_addcols(self.qcdata, self.dict_ordered_subset(headers, keys))
GeneralStats(m, keys) ==
    Call(m, "general_stats_addcols", "",
         OdKeys(dict_ordered_subset(m.headers, keys).od))

\* self.write_data_file(self.qcdata, name)
WriteDataFile(m, name) == Call(m, "write_data_file", name, << >>)

\* self.add_section(name=..., plot=...plot(self.qcdata,
\*                                       self.dict_ordered_subset(headers, keys)))
AddSection(m, name, keys) ==
    Call(m, "add_section", name, OdKeys(dict_ordered_subset(m.headers, keys).od))

\* self.add_section(name=..., description=self.make_description(described), ...)
AddDescribedSection(m, name, described, keys) ==
    IF m.exc # "" THEN m
    ELSE IF ~make_description(m.qcml, described).ok THEN Raise(m, "KeyError")
    ELSE AddSection(m, name, keys)

\* m as the check for no samples leaves it
Start == [exc |-> "", qcml |-> qcml, qcdata |-> qcdata, headers |-> EmptyDict,
          calls |-> << >>]

\* __init__ ends: with the exception m.exc, or with the report made
Finish(m) ==
    /\ pc' = IF m.exc = "" THEN "done" ELSE "raised"
    /\ exc' = m.exc
    /\ qcml' = m.qcml
    /\ qcdata' = m.qcdata
    /\ headers' = m.headers
    /\ calls' = m.calls
    /\ UNCHANGED <<module, logfiles, sample_names_ignore, docs, quality_parameters,
                   d, ks, od>>

----------------------------------------------------------------------------
(* readqc.MultiqcModule.__init__, from the bases sequenced key on. order   *)
(* is the order self.qcdata.items() yields the samples in. Each statement *)
(* runs on the m the one before it left.                                   *)

ReadQC(m, order) ==
    \E m1 \in {RenameEntry(m, "bases sequenced (MB)", "bases sequenced",
                           "Bases sequenced in total.")} :
    \E m2 \in {ConvertBases(m1, order, "bases sequenced (MB)", "bases sequenced")} :
    \E m3 \in {MakeHeaders(m2)} :
    \E m4 \in {UpdateAll(m3, << <<"Q20 read %", "%", "{:,.2f}">>,
                                <<"Q30 base %", "%", "{:,.2f}">>,
                                <<"gc content %", "%", "{:,.2f}">>,
                                <<"no base call %", "%", "{:,.2f}">>,
                                <<"bases sequenced", "base_count_prefix", "{:,.2f}">>,
                                <<"read count", "read_count_prefix", "{:,.2f}">>,
                                <<"read length", "bp", "{:,.0f}">> >>)} :
    \E m5 \in {GeneralStats(m4, <<"read count", "bases sequenced", "gc content %">>)} :
    \E m6 \in {WriteDataFile(m5, "multiqc_readqc")} :
    Finish(Call(m6, "add_section", "Overview", DOMAIN m6.headers))

----------------------------------------------------------------------------
(* mappingqc.MultiqcModule.__init__, from the bases usable key on.         *)

coverage_values == <<10, 20, 30, 50, 100, 200, 500>>

CoverageKey(x) == "target region " \o ToString(x) \o "x %"

CoverageKeys == [i \in 1..Len(coverage_values) |-> CoverageKey(coverage_values[i])]

\* [{s: headers[s]} for s in [...coverage_values]], then the last add_section
TargetCoverageSection(m) ==
    IF m.exc # "" THEN m
    ELSE IF \E i \in 1..Len(CoverageKeys) : CoverageKeys[i] \notin DOMAIN m.headers
    THEN Raise(m, "KeyError")
    ELSE Call(m, "add_section", "Target Coverage", CoverageKeys)

\* if 'target region 10x %' in headers.keys(): the three coverage sections
CoverageSections(m) ==
    IF m.exc # "" \/ "target region 10x %" \notin DOMAIN m.headers THEN m
    ELSE LET c1 == AddSection(m, "Coverage",
                              <<"target region read depth">> \o CoverageKeys)
             c2 == AddDescribedSection(c1, "Sequencing Depth",
                                       <<"target region read depth">>,
                                       <<"target region read depth">>)
         IN  TargetCoverageSection(c2)

MappingQC(m, order) ==
    \E m1 \in {RenameEntry(m, "bases usable (MB)", "bases usable",
                           "Bases sequenced in total.")} :
    \E m2 \in {ConvertBases(m1, order, "bases usable (MB)", "bases usable")} :
    \E m3 \in {MakeHeaders(m2)} :
    \E m4 \in {UpdateAll(m3, << <<"trimmed base %", "%", "{:,.2f}">>,
                                <<"clipped base %", "%", "{:,.2f}">>,
                                <<"mapped read %", "%", "{:,.2f}">>,
                                <<"bases usable", "base_count_prefix", "{:,.2f}">>,
                                <<"on-target read %", "%", "{:,.2f}">> >>)} :
    \E m5 \in {TryUpdates(m4, << <<"duplicate read %", "%", "{:,.2f}">> >>)} :
    \E m6 \in {TryUpdates(m5, << <<"properly-paired read %", "%", "{:,.2f}">>,
                                 <<"insert size", "bp", "{:,.2f}">> >>)} :
    \E m7 \in {TryUpdates(m6, << <<"SNV allele frequency deviation", "", "{:,.2f}">> >>)} :
    \E m8 \in {TryUpdates(m7, << <<"target region read depth", "x", "{:,.2f}">> >>
                                 \o [i \in 1..Len(CoverageKeys) |->
                                        <<CoverageKeys[i], "%", "{:,.2f}">>])} :
    \E m9 \in {GeneralStats(m8, <<"bases usable", "mapped read %", "on-target read %",
                                  "target region read depth">>)} :
    \E m10 \in {WriteDataFile(m9, "multiqc_mappingqc")} :
    \E m11 \in {AddSection(m10, "Overview",
                           <<"bases usable", "on-target read %", "mapped read %",
                             "properly-paired read %", "trimmed base %",
                             "clipped base %", "duplicate read %", "insert size",
                             "SNV allele frequency deviation">>)} :
    Finish(CoverageSections(m11))

----------------------------------------------------------------------------
(* somaticqc.MultiqcModule.__init__, from the somatic variant rate on.     *)

\* The replacement '\2' of the source is not a raw string: it is the one
\* character U+0002, not the second group. "~" stands for it; no input of
\* the model holds a "~".
STX == "~"

RateChars == Digits \cup {"."}

\* the number of characters of [0-9.] in s from position i on
RECURSIVE RateRun(_, _)
RateRun(s, i) ==
    IF i <= Len(s) /\ Ch(s, i) \in RateChars THEN 1 + RateRun(s, i + 1) ELSE 0

\* the length of the match of (low|moderate|high) \(([0-9.]+) var/Mb\) at
\* position i of s, 0 for no match
RateMatch(s, i) ==
    LET w == IF MatchAt(s, i, "low") THEN "low"
             ELSE IF MatchAt(s, i, "moderate") THEN "moderate"
             ELSE IF MatchAt(s, i, "high") THEN "high"
             ELSE ""
        n == RateRun(s, i + Len(w) + 2)
    IN  IF /\ w # ""
           /\ MatchAt(s, i + Len(w), " (")
           /\ n >= 1
           /\ MatchAt(s, i + Len(w) + 2 + n, " var/Mb)")
        THEN Len(w) + 2 + n + Len(" var/Mb)")
        ELSE 0

\* re.sub(r'(low|moderate|high) \(([0-9.]+) var/Mb\)', '\2', s) from position i
RECURSIVE SubRateFrom(_, _)
SubRateFrom(s, i) ==
    IF i > Len(s) THEN ""
    ELSE IF RateMatch(s, i) > 0 THEN STX \o SubRateFrom(s, i + RateMatch(s, i))
    ELSE Ch(s, i) \o SubRateFrom(s, i + 1)

\* for s, kv in self.qcdata.items(): try: kv[rate] = float(re.sub(...))
\*                                   except ValueError: kv.pop(rate)
RECURSIVE ParseRates(_, _)
ParseRates(m, order) ==
    IF m.exc # "" \/ order = << >> THEN m
    ELSE LET kv == m.qcdata[Head(order)]
             k == "somatic variant rate"
         IN  IF k \notin DOMAIN kv THEN Raise(m, "KeyError")
             ELSE IF kv[k].t # "str" THEN Raise(m, "TypeError")
             ELSE LET f == Float(SubRateFrom(kv[k].s, 1))
                  IN  ParseRates(
                          [m EXCEPT !.qcdata[Head(order)] =
                                        IF f.ok THEN Put(kv, k, f.v) ELSE Pop(kv, k)],
                          Tail(order))

\* headers[new] = headers.pop(old)
RenameHeader(m, old, new) ==
    IF m.exc # "" THEN m
    ELSE IF old \notin DOMAIN m.headers THEN Raise(m, "KeyError")
    ELSE [m EXCEPT !.headers = Put(Pop(m.headers, old), new, m.headers[old])]

\* for s, kv in self.qcdata.items(): kv[new] = kv.pop(old)
RECURSIVE RenameKeys(_, _, _, _)
RenameKeys(m, order, old, new) ==
    IF m.exc # "" \/ order = << >> THEN m
    ELSE LET kv == m.qcdata[Head(order)]
         IN  IF old \notin DOMAIN kv THEN Raise(m, "KeyError")
             ELSE RenameKeys([m EXCEPT !.qcdata[Head(order)] =
                                           Put(Pop(kv, old), new, kv[old])],
                             Tail(order), old, new)

SomaticQC(m, order) ==
    \E m1 \in {ParseRates(m, order)} :
    \E m2 \in {MakeHeaders(m1)} :
    \E m3 \in {UpdateAll(m2, << <<"sample correlation", "", "{:,.2f}">>,
                                <<"variant count", "", "{:,.0f}">>,
                                <<"somatic variant count", "", "{:,.0f}">>,
                                <<"known somatic variants %", "%", "{:,.2f}">>,
                                <<"somatic indel %", "%", "{:,.2f}">>,
                                <<"somatic variant rate", "Variants/Mb", "{:,.2f}">> >>)} :
    \E m4 \in {TryUpdates(m3, << <<"somatic transition/transversion ratio", "",
                                   "{:,.2f}">> >>)} :
    \E m5 \in {TryUpdates(m4, << <<"tumor content estimate", "%", "{:,.2f}">> >>)} :
    \E m6 \in {RenameHeader(m5, "variant count", "variant count somaticqc")} :
    \E m7 \in {RenameKeys(m6, order, "variant count", "variant count somaticqc")} :
    \E m8 \in {GeneralStats(m7, <<"sample correlation", "somatic variant count",
                                  "known somatic variants %">>)} :
    \E m9 \in {WriteDataFile(m8, "multiqc_somaticqc")} :
    \E m10 \in {AddSection(m9, "Overview",
                           <<"sample correlation", "variant count somaticqc",
                             "somatic variant count", "known somatic variants %",
                             "somatic indel %", "somatic transition/transversion ratio",
                             "somatic variant rate", "tumor content estimate">>)} :
    Finish(AddDescribedSection(m10, "Somatic Variant Count",
                                   <<"somatic variant count">>, <<"somatic variant count">>))

----------------------------------------------------------------------------
(* variantqc.MultiqcModule.__init__, from the table headers on.            *)

VariantQC(m) ==
    \E m1 \in {MakeHeaders(m)} :
    \E m2 \in {UpdateAll(m1, << <<"variant count", "", "{:,.0f}">>,
                                <<"known variants %", "%", "{:,.2f}">>,
                                <<"high-impact variants %", "%", "{:,.2f}">>,
                                <<"homozygous variants %", "%", "{:,.2f}">>,
                                <<"indel variants %", "%", "{:,.2f}">>,
                                <<"transition/transversion ratio", "", "{:,.2f}">> >>)} :
    \E m3 \in {GeneralStats(m2, <<"variant count", "known variants %">>)} :
    \E m4 \in {WriteDataFile(m3, "multiqc_variantqc")} :
    \E m5 \in {AddSection(m4, "Overview",
                          <<"variant count", "high-impact variants %",
                            "homozygous variants %", "indel variants %",
                            "transition/transversion ratio">>)} :
    Finish(AddDescribedSection(m5, "Variant Count",
                                   <<"variant count">>, <<"variant count">>))

----------------------------------------------------------------------------
(* A module's run: the loop over find_log_files, ignore_samples, the check *)
(* for no samples, and the rest of __init__.                               *)

Modules == {"readqc", "mappingqc", "somaticqc", "variantqc"}

\* the names of the qualityParameter elements each tool writes
ReadQCNames ==
    <<"read count", "read length", "bases sequenced (MB)", "Q20 read percentage",
      "Q30 base percentage", "no base call percentage", "gc content percentage">>

MappingQCRequired ==
    <<"trimmed base percentage", "clipped base percentage", "mapped read percentage",
      "bases usable (MB)", "on-target read percentage">>

MappingQCOptional ==
    <<"duplicate read percentage", "properly-paired read percentage", "insert size",
      "SNV allele frequency deviation", "target region read depth",
      "target region 10x percentage", "target region 20x percentage",
      "target region 30x percentage", "target region 50x percentage",
      "target region 100x percentage", "target region 200x percentage",
      "target region 500x percentage">>

SomaticQCNames ==
    <<"sample correlation", "variant count", "somatic variant count",
      "known somatic variants percentage", "somatic indel percentage",
      "somatic transition/transversion ratio", "tumor content estimate">>

VariantQCNames ==
    <<"variant count", "known variants percentage", "high-impact variants percentage",
      "homozygous variants percentage", "indel variants percentage",
      "transition/transversion ratio">>

\* a document: one element per name, every value v
Doc(names, v) ==
    [i \in 1..Len(names) |-> QP(names[i], v, "about " \o names[i], "QC:1")]

Rate(v) == <<QP("somatic variant rate", v, "about somatic variant rate", "QC:1")>>

\* the documents find_log_files may yield for a module: a complete one, one
\* with no elements, and one whose values are all "n/a" or that varies the
\* module's own parameters
Files(mod) ==
    CASE mod = "readqc" ->
           {Doc(ReadQCNames, "12.5"), << >>, Doc(ReadQCNames, "n/a")}
      [] mod = "mappingqc" ->
           {Doc(MappingQCRequired \o MappingQCOptional, "12.5"), << >>,
            Doc(MappingQCRequired, "12.5")}
      [] mod = "somaticqc" ->
           {Doc(SomaticQCNames, "12.5") \o Rate("low (1.5 var/Mb)"), << >>,
            Doc(SomaticQCNames, "12.5") \o Rate("high (12 var/Mb)"),
            Doc(SomaticQCNames, "12.5") \o Rate("2.5")}
      [] mod = "variantqc" ->
           {Doc(VariantQCNames, "12.5"), << >>, Doc(VariantQCNames, "n/a (no variants)")}

\* the sample names clean_s_name gives the files
SampleNames == {"S1", "T2-N2"}

SeqsUpTo(S, n) == UNION {[1..k -> S] : k \in 0..n}

\* the position of the first "-" of s from position i on, 0 for none
RECURSIVE FirstDash(_, _)
FirstDash(s, i) ==
    IF i > Len(s) THEN 0 ELSE IF Ch(s, i) = "-" THEN i ELSE FirstDash(s, i + 1)

\* ms = re.match(r'([^-]+)-[^-]+', s_name); if (ms): s_name = ms.group(1)
SplitPair(s) ==
    LET p == FirstDash(s, 1)
    IN  IF p >= 2 /\ p < Len(s) /\ Ch(s, p + 1) # "-" THEN SubSeq(s, 1, p - 1) ELSE s

s_name(mod, f) == IF mod = "somaticqc" THEN SplitPair(f.s_name) ELSE f.s_name

\* BaseMultiqcModule.ignore_samples(data): the samples config names are dropped
ignore_samples(data, ignored) == [s \in (DOMAIN data) \ ignored |-> data[s]]

\* a mutant of NoSamples: the check never finds the sample set empty
NoSamplesNever(data) == FALSE

\* len(self.qcdata) == 0
NoSamples(data) == DOMAIN data = {}

Perms(S) ==
    {p \in [1..Cardinality(S) -> S] : \A i, j \in 1..Cardinality(S) : p[i] = p[j] => i = j}

Init ==
    /\ NoSubset
    /\ Fresh
    /\ pc = "find"
    /\ module \in Modules
    /\ logfiles \in SeqsUpTo([s_name : SampleNames, f : Files(module)], MaxFiles)
    /\ sample_names_ignore \in SUBSET SampleNames

\* for f in self.find_log_files(...): self.qcdata[s_name] = self.parse_qcml(f['f'])
ParseLogFile ==
    /\ pc = "find"
    /\ module \in Modules
    /\ Len(docs) < Len(logfiles)
    /\ LET f == logfiles[Len(docs) + 1]
           r == parse_qcml(qcml, f.f)
       IN  /\ docs' = Append(docs, f.f)
           /\ qcml' = r.qcml
           /\ qcdata' = Put(qcdata, s_name(module, f), r.quality_parameters)
    /\ UNCHANGED <<module, logfiles, sample_names_ignore, pc, exc, headers, calls,
                   quality_parameters, d, ks, od>>

\* self.qcdata = self.ignore_samples(self.qcdata)
IgnoreSamples ==
    /\ pc = "find"
    /\ module \in Modules
    /\ Len(docs) = Len(logfiles)
    /\ qcdata' = ignore_samples(qcdata, sample_names_ignore)
    /\ pc' = "check"
    /\ UNCHANGED <<module, logfiles, sample_names_ignore, exc, qcml, headers, calls,
                   docs, quality_parameters, d, ks, od>>

\* if len(self.qcdata) == 0: raise UserWarning
RaiseNoSamples ==
    /\ pc = "check"
    /\ NoSamples(qcdata)
    /\ pc' = "raised"
    /\ exc' = "UserWarning"
    /\ UNCHANGED <<module, logfiles, sample_names_ignore, qcml, qcdata, headers,
                   calls, docs, quality_parameters, d, ks, od>>

ConstructReadQC ==
    /\ pc = "check" /\ module = "readqc" /\ ~NoSamples(qcdata)
    /\ \E order \in Perms(DOMAIN qcdata) : ReadQC(Start, order)

ConstructMappingQC ==
    /\ pc = "check" /\ module = "mappingqc" /\ ~NoSamples(qcdata)
    /\ \E order \in Perms(DOMAIN qcdata) : MappingQC(Start, order)

ConstructSomaticQC ==
    /\ pc = "check" /\ module = "somaticqc" /\ ~NoSamples(qcdata)
    /\ \E order \in Perms(DOMAIN qcdata) : SomaticQC(Start, order)

ConstructVariantQC ==
    /\ pc = "check" /\ module = "variantqc" /\ ~NoSamples(qcdata)
    /\ VariantQC(Start)

Next ==
    \/ ParseLogFile
    \/ IgnoreSamples
    \/ RaiseNoSamples
    \/ ConstructReadQC
    \/ ConstructMappingQC
    \/ ConstructSomaticQC
    \/ ConstructVariantQC

Spec == Init /\ [][Next]_vars

\* MappingQC on one sample whose file holds the required parameters and any
\* subset of the optional ones
Selected(names, sub) == SelectSeq(names, LAMBDA n : n \in sub)

Range(f) == {f[i] : i \in DOMAIN f}

InitMappingQC ==
    /\ NoSubset
    /\ Fresh
    /\ pc = "find"
    /\ module = "mappingqc"
    /\ \E sub \in SUBSET Range(MappingQCOptional) :
          logfiles = <<[s_name |-> "S1",
                        f |-> Doc(MappingQCRequired \o Selected(MappingQCOptional, sub),
                                  "12.5")]>>
    /\ sample_names_ignore \in SUBSET {"S1"}

NextMappingQC == ParseLogFile \/ IgnoreSamples \/ RaiseNoSamples \/ ConstructMappingQC

SpecMappingQC == InitMappingQC /\ [][NextMappingQC]_vars

----------------------------------------------------------------------------
(* dict_ordered_subset on its own: d and ks drawn from small sets.         *)

SubsetKeys == {"read count", "bases sequenced", "gc content %"}

SubsetValues == {"a", "b"}

Dicts(K, V) == UNION {[S -> V] : S \in SUBSET K}

InitSubset ==
    /\ NoModule
    /\ Fresh
    /\ pc = "call"
    /\ d \in Dicts(SubsetKeys, SubsetValues)
    /\ ks \in SeqsUpTo(SubsetKeys, MaxKs)
    /\ od = << >>

\* od = dict_ordered_subset(d, ks)
DictOrderedSubset ==
    /\ pc = "call"
    /\ pc' = "returned"
    /\ od' = dict_ordered_subset(d, ks).od
    /\ d' = dict_ordered_subset(d, ks).d
    /\ UNCHANGED <<module, logfiles, sample_names_ignore, exc, qcml, qcdata, headers,
                   calls, docs, quality_parameters, ks>>

NextSubset == DictOrderedSubset

SpecSubset == InitSubset /\ [][NextSubset]_vars

----------------------------------------------------------------------------
(* The unit conversion of ReadQC and MappingQC on its own: files that vary *)
(* the value of the module's (MB) parameter.                               *)

\* the key __init__ pops, and the key it derives from it
MBName(mod) == IF mod = "readqc" THEN "bases sequenced (MB)" ELSE "bases usable (MB)"

BasesName(mod) == IF mod = "readqc" THEN "bases sequenced" ELSE "bases usable"

\* the values the (MB) element may hold: floats, an infinity, and a text
MBValues == {"12.5", "3", "inf", "low"}

\* a document of the module's own elements whose (MB) element holds v
MBDoc(mod, v) ==
    LET names == IF mod = "readqc" THEN ReadQCNames ELSE MappingQCRequired
    IN  [i \in 1..Len(names) |->
            QP(names[i], IF names[i] = MBName(mod) THEN v ELSE "12.5",
               "about " \o names[i], "QC:1")]

\* the documents of the conversion: one per value, one whose (MB) element is
\* skipped, and one that holds an element of the derived name already
ConvertFiles(mod) ==
    {MBDoc(mod, v) : v \in MBValues}
        \cup {MBDoc(mod, "n/a"),
              MBDoc(mod, "3") \o <<QP(BasesName(mod), "7", "bases", "QC:2")>>}

InitConvert ==
    /\ NoSubset
    /\ Fresh
    /\ pc = "find"
    /\ module \in {"readqc", "mappingqc"}
    /\ logfiles \in SeqsUpTo([s_name : SampleNames, f : ConvertFiles(module)], MaxFiles)
    /\ sample_names_ignore \in SUBSET {"S1"}

NextConvert ==
    \/ ParseLogFile
    \/ IgnoreSamples
    \/ RaiseNoSamples
    \/ ConstructReadQC
    \/ ConstructMappingQC

SpecConvert == InitConvert /\ [][NextConvert]_vars

----------------------------------------------------------------------------
(* Claims about parse_qcml.                                                *)

Max(S) == CHOOSE x \in S : \A y \in S : y <= x

\* the positions in AllRead of the non-skipped elements named k
Writers(k) ==
    {i \in 1..Len(AllRead) : ~IsSkipped(AllRead[i]) /\ qp_name(AllRead[i]) = k}

NaString(v) == v.t = "str" /\ StartsWith(v.s, "n/a")

\* C1: no mapping parse_qcml builds or has returned holds a string value
\* beginning with "n/a", and every key of the mapping in progress comes from
\* an element of that document whose value does not begin with "n/a":
\* elements whose value begins with "n/a" leave no entry, whatever their name.
C1_NoNaValue ==
    /\ \A k \in DOMAIN quality_parameters : ~NaString(quality_parameters[k])
    /\ \A s \in DOMAIN qcdata : \A k \in DOMAIN qcdata[s] : ~NaString(qcdata[s][k])
    /\ pc = "parse_qcml" =>
          \A k \in DOMAIN quality_parameters :
             \E i \in 1..Len(CurrentDoc) :
                /\ ~StartsWith(CurrentDoc[i].value, "n/a")
                /\ qp_name(CurrentDoc[i]) = k

\* C1 witness: a returned mapping, from a document that held an element with
\* an "n/a..." value after an element of the same name with a number.
C1_Witness ==
    /\ pc = "find"
    /\ Len(docs) = 1
    /\ Len(docs[1]) = 2
    /\ docs[1][1].name = docs[1][2].name
    /\ docs[1][1].value = "210"
    /\ docs[1][2].value = "n/a (no target region)"
    /\ DOMAIN qcdata = {SampleOf(1)}
    /\ DOMAIN qcdata[SampleOf(1)] = {qp_name(docs[1][1])}

\* the key the spec gives a name: a trailing " percentage" becomes " %"
SpecKey(name) ==
    IF EndsWith(name, " percentage")
    THEN SubSeq(name, 1, Len(name) - Len(" percentage")) \o " %"
    ELSE name

\* C2: the key of a non-skipped element is its name with a trailing
\* " percentage" replaced by " %", and its name unchanged in every other case.
C2_KeyIsSpecKey ==
    (pc = "parse_qcml" /\ Len(CurrentDoc) = 1 /\ ~IsSkipped(CurrentDoc[1]))
        => DOMAIN quality_parameters = {SpecKey(CurrentDoc[1].name)}

\* C3: a non-skipped element's value is stored as the number float() gives
\* when float() accepts it, and as the original string otherwise; so a
\* number, a string and a missing key tell the three cases apart.
C3_FloatOrString ==
    (pc = "parse_qcml" /\ Len(CurrentDoc) = 1) =>
        LET qp == CurrentDoc[1]
            k == qp_name(qp)
            f == Float(qp.value)
        IN  /\ IsSkipped(qp) => quality_parameters = EmptyDict
            /\ ~IsSkipped(qp) =>
                  /\ DOMAIN quality_parameters = {k}
                  /\ f.ok => quality_parameters[k] = f.v /\ f.v.t = "float"
                  /\ ~f.ok => quality_parameters[k] = Str(qp.value)
            /\ qp.value = "210" =>
                  k \in DOMAIN quality_parameters /\ quality_parameters[k] = Num(21, 1)
            /\ qp.value = "97.3" =>
                  k \in DOMAIN quality_parameters /\ quality_parameters[k] = Num(973, -1)
            /\ qp.value = "NA_TEXT" =>
                  k \in DOMAIN quality_parameters /\ quality_parameters[k] = Str("NA_TEXT")
            /\ qp.value = "n/a (no target region)" => k \notin DOMAIN quality_parameters

\* C3 witness: a value that float() rejects has been stored as it was.
C3_Witness ==
    /\ pc = "parse_qcml"
    /\ Len(CurrentDoc) = 1
    /\ CurrentDoc[1].value = "NA_TEXT"
    /\ quality_parameters = ("insert size" :> Str("NA_TEXT"))

\* C7 as stated: an entry of the description table, once recorded, is never
\* changed by a later element.
C7_WriteOnce ==
    [][\A k \in DOMAIN qcml : k \in DOMAIN qcml' /\ qcml'[k] = qcml[k]]_vars

\* C7 as amended: parse_qcml never removes an entry, and an entry changes
\* only when a non-skipped element of that normalized name is read, to that
\* element's description and accession.
C7_OverwrittenOnlyByOwnName ==
    [][\A k \in DOMAIN qcml :
          /\ k \in DOMAIN qcml'
          /\ qcml'[k] # qcml[k] =>
                /\ Len(AllRead') = Len(AllRead) + 1
                /\ ~IsSkipped(AllRead'[Len(AllRead')])
                /\ qp_name(AllRead'[Len(AllRead')]) = k
                /\ qcml'[k] = qp_entry(AllRead'[Len(AllRead')])]_vars

\* C7 witness: within one document an entry has been overwritten, while the
\* entry of another name stayed as it was.
C7_Witness ==
    /\ Len(docs) = 1
    /\ Len(docs[1]) = 3
    /\ \A i \in 1..3 : ~IsSkipped(docs[1][i])
    /\ qp_name(docs[1][1]) = qp_name(docs[1][3])
    /\ qp_name(docs[1][2]) # qp_name(docs[1][1])
    /\ qp_entry(docs[1][1]) # qp_entry(docs[1][3])
    /\ qcml[qp_name(docs[1][1])] = qp_entry(docs[1][3])
    /\ qcml[qp_name(docs[1][2])] = qp_entry(docs[1][2])

\* C8: the description table holds, for exactly the normalized names of the
\* non-skipped elements read so far, the description and accession of the
\* last such element in processing order.
C8_LastWriterWins ==
    /\ DOMAIN qcml =
          {qp_name(AllRead[i]) : i \in {j \in 1..Len(AllRead) : ~IsSkipped(AllRead[j])}}
    /\ \A k \in DOMAIN qcml : qcml[k] = qp_entry(AllRead[Max(Writers(k))])

\* C8 witness: a later sample's element has replaced the entry an earlier
\* sample wrote, and a skipped element after it has left the entry alone.
C8_Witness ==
    /\ Len(docs) = 2
    /\ Len(docs[1]) = 1
    /\ Len(docs[2]) = 2
    /\ ~IsSkipped(docs[1][1])
    /\ ~IsSkipped(docs[2][1])
    /\ IsSkipped(docs[2][2])
    /\ qp_name(docs[1][1]) = qp_name(docs[2][1])
    /\ qp_name(docs[2][2]) = qp_name(docs[2][1])
    /\ qp_entry(docs[1][1]) # qp_entry(docs[2][1])
    /\ qp_entry(docs[2][2]) # qp_entry(docs[2][1])
    /\ qcml[qp_name(docs[1][1])] = qp_entry(docs[2][1])

----------------------------------------------------------------------------
(* Claims about the modules.                                               *)

Ended == pc \in {"done", "raised"}

\* C4: in every module, a run whose sample set is empty after parsing and
\* ignore_samples ends with UserWarning, with no call of
\* general_stats_addcols, write_data_file or add_section made and no headers
\* built; UserWarning is raised in no other case, and no call is made before
\* the samples are checked.
C4_NoSamplesNoData ==
    /\ (Ended /\ DOMAIN qcdata = {}) =>
          pc = "raised" /\ exc = "UserWarning" /\ calls = << >> /\ headers = EmptyDict
    /\ exc = "UserWarning" => pc = "raised" /\ DOMAIN qcdata = {}
    /\ pc \in {"find", "check"} => calls = << >>

\* C4 witness: two files with parameters were parsed, every sample was
\* ignored, and the module raised UserWarning.
C4_Witness ==
    /\ pc = "raised"
    /\ exc = "UserWarning"
    /\ Len(logfiles) = 2
    /\ DOMAIN qcml # {}
    /\ calls = << >>

\* C5: when a retained sample has no quality parameter at all, the module
\* ends with the "no data" signal UserWarning.
C5_EmptySampleIsNoData ==
    (Ended /\ \E s \in DOMAIN qcdata : DOMAIN qcdata[s] = {}) => exc = "UserWarning"

\* C6: in MappingQC, with the required parameters present, construction
\* completes without raising whichever optional parameters are absent.
C6_OptionalAbsentNoFailure ==
    (Ended /\ DOMAIN qcdata # {}) => pc = "done" /\ exc = ""

\* the first position of key k in the tuple keys
FirstIndex(keys, k) == CHOOSE i \in 1..Len(keys) : keys[i] = k /\ \A j \in 1..(i - 1) : keys[j] # k

\* o holds exactly the keys of keys that dict has, once each, with dict's
\* values, in the order of their first places in keys
IsOrderedSubset(o, dict, keys) ==
    /\ \A i, j \in 1..Len(o) : o[i][1] = o[j][1] => i = j
    /\ {o[i][1] : i \in 1..Len(o)} = Range(keys) \cap DOMAIN dict
    /\ \A i \in 1..Len(o) : o[i][2] = dict[o[i][1]]
    /\ \A i, j \in 1..Len(o) :
          i < j => FirstIndex(keys, o[i][1]) < FirstIndex(keys, o[j][1])

\* C9: dict_ordered_subset(d, ks) returns exactly the keys of ks that d has,
\* each with d's value, in the order they appear in ks, and leaves d as it was.
C9_OrderedSubset ==
    [][pc = "call" => (d' = d /\ IsOrderedSubset(od', d, ks))]_vars

\* C9 witness: of three keys asked for, the second is missing from d and the
\* other two come back in the order asked.
C9_Witness ==
    /\ pc = "returned"
    /\ ks = <<"gc content %", "read count", "bases sequenced">>
    /\ DOMAIN d = {"bases sequenced", "gc content %"}
    /\ d["bases sequenced"] # d["gc content %"]
    /\ od = << <<"gc content %", d["gc content %"]>>,
               <<"bases sequenced", d["bases sequenced"]>> >>

\* the position of the first character c of s from position i on, 0 for none
RECURSIVE IndexOf(_, _, _)
IndexOf(s, c, i) ==
    IF i > Len(s) THEN 0 ELSE IF Ch(s, i) = c THEN i ELSE IndexOf(s, c, i + 1)

\* v reads '<low|moderate|high> (<number> var/Mb)' and <number> is a number
RateForm(v) ==
    /\ v.t = "str"
    /\ v.s # ""
    /\ RateMatch(v.s, 1) = Len(v.s)
    /\ Float(SubSeq(v.s, IndexOf(v.s, "(", 1) + 1, Len(v.s) - Len(" var/Mb)"))).ok

RateNumber(v) ==
    Float(SubSeq(v.s, IndexOf(v.s, "(", 1) + 1, Len(v.s) - Len(" var/Mb)"))).v

\* the file the sample s of the report was parsed from: the last of its name
FileOf(s) ==
    logfiles[Max({i \in 1..Len(logfiles) : s_name(module, logfiles[i]) = s})].f

\* C10: in SomaticQC, a sample whose 'somatic variant rate' was parsed as
\* '<low|moderate|high> (<number> var/Mb)' has the number <number> under
\* that key once the module is built.
C10_RateIsNumber ==
    (module = "somaticqc" /\ pc = "done") =>
        \A s \in DOMAIN qcdata :
            LET parsed == parse_qcml(EmptyDict, FileOf(s)).quality_parameters
                k == "somatic variant rate"
            IN  (k \in DOMAIN parsed /\ RateForm(parsed[k])) =>
                    k \in DOMAIN qcdata[s] /\ qcdata[s][k] = RateNumber(parsed[k])

RECURSIVE Pow10(_)
Pow10(n) == IF n <= 0 THEN 1 ELSE 10 * Pow10(n - 1)

\* r is the float v times 1e6: the same infinity or nan, or the same number
\* with the exponent six higher
IsMillionTimes(r, v) ==
    /\ v.t = "float"
    /\ r.t = "float"
    /\ r.s = v.s
    /\ v.s = "" =>
          LET lo == IF r.e < v.e + 6 THEN r.e ELSE v.e + 6
          IN  r.m * Pow10(r.e - lo) = v.m * Pow10(v.e + 6 - lo)

\* C11: once ReadQC (MappingQC) is built, every sample of the report has no
\* 'bases sequenced (MB)' ('bases usable (MB)') key and has under 'bases
\* sequenced' ('bases usable') the (MB) value parsed from its file times
\* 1e6, and the description table has the new key and not the (MB) key.
C11_BasesConverted ==
    (module \in {"readqc", "mappingqc"} /\ pc = "done") =>
        LET old == IF module = "readqc" THEN "bases sequenced (MB)"
                   ELSE "bases usable (MB)"
            new == IF module = "readqc" THEN "bases sequenced" ELSE "bases usable"
        IN  /\ old \notin DOMAIN qcml
            /\ new \in DOMAIN qcml
            /\ \A s \in DOMAIN qcdata :
                  LET parsed == parse_qcml(EmptyDict, FileOf(s)).quality_parameters
                  IN  /\ old \notin DOMAIN qcdata[s]
                      /\ new \in DOMAIN qcdata[s]
                      /\ old \in DOMAIN parsed
                      /\ IsMillionTimes(qcdata[s][new], parsed[old])

\* C11 witness: ReadQC is built on two samples of 12.5 and 3 MB, which hold
\* 12500000 and 3000000 bases.
C11_Witness ==
    /\ module = "readqc"
    /\ pc = "done"
    /\ DOMAIN qcdata = {"S1", "T2-N2"}
    /\ qcdata["S1"]["bases sequenced"] = Num(125, 5)
    /\ qcdata["T2-N2"]["bases sequenced"] = Num(3, 6)
    /\ "bases sequenced (MB)" \notin DOMAIN qcdata["S1"]

\* the description table has an entry for k with both of its fields
Described(k) ==
    /\ k \in DOMAIN qcml
    /\ "description" \in DOMAIN qcml[k]
    /\ "accession" \in DOMAIN qcml[k]

\* C12: after any sequence of parse_qcml calls of one module instance, every
\* key of every mapping parse_qcml has returned, and of the mapping a call
\* in progress has built so far, has an entry in the description table with
\* a description and an accession.
C12_KeysDescribed ==
    /\ \A s \in DOMAIN qcdata : \A k \in DOMAIN qcdata[s] : Described(k)
    /\ pc = "parse_qcml" => \A k \in DOMAIN quality_parameters : Described(k)

\* C12 witness: two calls have returned; the first sample holds 'gc %' from
\* an element named 'gc percentage', the second call skipped an element and
\* replaced the entry of 'gc %', which still has both fields.
C12_Witness ==
    /\ pc = "find"
    /\ DOMAIN qcdata = {"S1", "S2"}
    /\ docs[1] = <<QP("gc percentage", "210", "d1", "QC:1")>>
    /\ Len(docs[2]) = 2
    /\ IsSkipped(docs[2][1])
    /\ "gc %" \in DOMAIN qcdata["S1"]
    /\ qcml["gc %"] = [description |-> "d2", accession |-> "QC:2"]
    /\ "insert size" \notin DOMAIN qcml

====
